---------------------------- MODULE Spec2Model ----------------------------
(***************************************************************************)
(* The task filtering tool of ticktick_mcp/src/server.py: filter_tasks,    *)
(* its validation, project resolution, the per-task predicate and the      *)
(* cross-project scan of _get_project_tasks_by_filter, together with the   *)
(* lazily initialised global client handle.                                *)
(*                                                                         *)
(* Spec is the tool as a whole.  ClassifySpec, SearchSpec and ParseSpec    *)
(* apply the date windows, the text search and the date parser to inputs   *)
(* drawn from pools wider than the data Spec lets the service hold.        *)
(*                                                                         *)
(* Python values are represented as follows.                               *)
(*   - An optional value (None or a value v) is None == <<>> or Some(v).   *)
(*   - Text that the code case-folds or searches is a sequence of          *)
(*     one-character strings; identifiers the code only compares for       *)
(*     equality (project ids, filter names) are TLA+ strings.              *)
(*   - A datetime is [wall |-> its wall-clock reading in seconds, off |->  *)
(*     its UTC offset in seconds, aware |-> whether it carries a timezone].*)
(*   - The string the tool returns is a record [kind, detail, n, groups]:  *)
(*     kind names the message template, detail its interpolated values,    *)
(*     and for a report n is the count of the header line and groups the   *)
(*     rendered project groups in the order they were appended.            *)
(***************************************************************************)
EXTENDS Integers, Sequences, FiniteSets

VARIABLES
    ticktick,     \* the global client handle: "None" or "client"
    pc,           \* position of the one (sequential) tool invocation
    args,         \* arguments of the running invocation of filter_tasks
    now,          \* the last reading of the wall clock, UTC seconds
    ticks,        \* seconds the clock has advanced (bounds the clock)
    calls,        \* remote client operations invoked by this invocation
    projects_data, \* filter_tasks: Some(list get_projects returned), line 780
    projects,     \* filter_tasks: the resolved project list
    i,            \* _get_project_tasks_by_filter: enumerate index of the loop
    tasks,        \* _get_project_tasks_by_filter: the fetched task list
    t,            \* index of the next task the list comprehension evaluates
    filtered_tasks, \* the list comprehension's result so far: <<t, task>> pairs
    result,       \* _get_project_tasks_by_filter: the report built so far
    ticktick0,    \* history: the client handle when the invocation began
    fetches,      \* history: one record per get_project_with_data call
    evals,        \* history: one record per evaluation of task_filter
    ret           \* what the invocation returned (None while it runs)

vars == <<ticktick, pc, args, now, ticks, calls, projects_data, projects, i, tasks, t,
          filtered_tasks, result, ticktick0, fetches, evals, ret>>

(***************************************************************************)
(* Bounds of the model.                                                    *)
(***************************************************************************)
MaxProjects == 2
MaxTasks == 2
MaxTicks == 1

(***************************************************************************)
(* Optional values and text.                                               *)
(***************************************************************************)
None == <<>>
Some(v) == <<v>>
Get(o, default) == IF o = None THEN default ELSE o[1]

\* str.lower() on the characters the model uses.
LowerChar(c) ==
    CASE c = "A" -> "a"
      [] c = "B" -> "b"
      [] c = "I" -> "i"
      [] c = "N" -> "n"
      [] c = "O" -> "o"
      [] c = "X" -> "x"
      [] OTHER -> c

lower(s) == [k \in 1..Len(s) |-> LowerChar(s[k])]

\* str.strip(): leading and trailing blanks removed.
RECURSIVE lstrip(_)
lstrip(s) == IF s # <<>> /\ s[1] = " " THEN lstrip(Tail(s)) ELSE s

RECURSIVE rstrip(_)
rstrip(s) ==
    IF s # <<>> /\ s[Len(s)] = " " THEN rstrip(SubSeq(s, 1, Len(s) - 1)) ELSE s

strip(s) == rstrip(lstrip(s))

\* Python's `sub in s` for strings.
contains(s, sub) ==
    \E k \in 0..(Len(s) - Len(sub)) : SubSeq(s, k + 1, k + Len(sub)) = sub


(***************************************************************************)
(* Dates.  A date string is [isstr, body, wall, frac, tail]:               *)
(*   isstr  FALSE for the value None passed where a string is expected;    *)
(*   body   whether the text begins with a well-formed                     *)
(*          "YYYY-MM-DDTHH:MM:SS", whose wall-clock reading is wall        *)
(*          (seconds), followed by ".fff" when frac;                       *)
(*   tail   the characters after that (the whole text when body is FALSE). *)
(* So 2019-11-14T03:00:00+0000 has tail "+0000", 2019-11-14T03:00:00 has   *)
(* the empty tail, and text that is no date has no body.  The code's own   *)
(* slicing of the offset works on the characters of tail; strptime and     *)
(* fromisoformat are the library's, modelled by what they accept.          *)
(* A parsed datetime is [wall, off, aware]; its instant is wall - off.     *)
(***************************************************************************)
DateStr(wall, frac, tail) ==
    [isstr |-> TRUE, body |-> TRUE, wall |-> wall, frac |-> frac, tail |-> tail]

\* Text without a date in front: the empty string, or anything else.
PlainStr(tail) ==
    [isstr |-> TRUE, body |-> FALSE, wall |-> 0, frac |-> FALSE, tail |-> tail]

\* The value None where a date string is expected.
NoneStr ==
    [isstr |-> FALSE, body |-> FALSE, wall |-> 0, frac |-> FALSE, tail |-> <<>>]

\* len(date_str): "YYYY-MM-DDTHH:MM:SS" has 19 characters, ".fff" four more.
strlen(date_str) ==
    (IF date_str.body THEN (IF date_str.frac THEN 23 ELSE 19) ELSE 0)
        + Len(date_str.tail)

\* Line 535: `not date_str` holds of None and of the empty string.
falsy(date_str) == ~date_str.isstr \/ strlen(date_str) = 0

isdigit(c) == c \in {"0", "1", "2", "3", "4", "5", "6", "7", "8", "9"}

DigitVal(c) ==
    CASE c = "0" -> 0 [] c = "1" -> 1 [] c = "2" -> 2 [] c = "3" -> 3
      [] c = "4" -> 4 [] c = "5" -> 5 [] c = "6" -> 6 [] c = "7" -> 7
      [] c = "8" -> 8 [] c = "9" -> 9

\* The directive %z of strptime: "Z", "+HHMM" or "+HH:MM" (minutes below 60,
\* the offset below one day); Some(offset in seconds), or None when the
\* text is no offset.
utcoffset(tail) ==
    LET digits == IF Len(tail) = 5 THEN SubSeq(tail, 2, 5)
                  ELSE IF Len(tail) = 6 /\ tail[4] = ":"
                       THEN SubSeq(tail, 2, 3) \o SubSeq(tail, 5, 6)
                  ELSE <<>>
        hours == DigitVal(digits[1]) * 10 + DigitVal(digits[2])
        minutes == DigitVal(digits[3]) * 10 + DigitVal(digits[4])
    IN  IF tail = <<"Z">> THEN Some(0)
        ELSE IF /\ Len(digits) = 4
                /\ tail[1] \in {"+", "-"}
                /\ \A k \in 1..4 : isdigit(digits[k])
                /\ hours < 24
                /\ minutes < 60
             THEN Some((IF tail[1] = "-" THEN -1 ELSE 1)
                           * (hours * 3600 + minutes * 60))
        ELSE None

\* Lines 538-543: strptime with "%Y-%m-%dT%H:%M:%S.%f%z" needs a fraction
\* and an offset.
strptime_frac(date_str) ==
    IF date_str.body /\ date_str.frac /\ utcoffset(date_str.tail) # None
    THEN Some([wall |-> date_str.wall, off |-> utcoffset(date_str.tail)[1],
               aware |-> TRUE])
    ELSE None

\* Lines 548 and 551: the fifth character from the end is a sign and the
\* four after it are digits.  When fewer than five characters follow the
\* seconds of a date, date_str[-5] is a digit, a colon or a dot of the date.
has_colonless_offset(date_str) ==
    LET tail == date_str.tail
    IN  /\ strlen(date_str) > 5
        /\ Len(tail) >= 5
        /\ tail[Len(tail) - 4] \in {"+", "-"}
        /\ \A k \in (Len(tail) - 3)..Len(tail) : isdigit(tail[k])

\* Lines 552-555 with the sign dropped.
colon_offset_unsigned(timezone_part) ==
    <<"+", timezone_part[2], timezone_part[3], ":",
      timezone_part[4], timezone_part[5]>>

\* Lines 552-555: sign, hours, a colon, minutes.
colon_offset(timezone_part) ==
    <<timezone_part[1], timezone_part[2], timezone_part[3], ":",
      timezone_part[4], timezone_part[5]>>

\* Lines 547-555: +0000 becomes +00:00.
normalized_date(date_str) ==
    LET tail == date_str.tail
    IN  IF has_colonless_offset(date_str)
        THEN [date_str EXCEPT !.tail =
                 SubSeq(tail, 1, Len(tail) - 5)
                     \o colon_offset(SubSeq(tail, Len(tail) - 4, Len(tail)))]
        ELSE date_str

\* Lines 558-559: strptime with "%Y-%m-%dT%H:%M:%S%z" on the normalised
\* string: whole seconds and an offset.
strptime_whole(date_str) ==
    IF date_str.body /\ ~date_str.frac /\ utcoffset(date_str.tail) # None
    THEN Some([wall |-> date_str.wall, off |-> utcoffset(date_str.tail)[1],
               aware |-> TRUE])
    ELSE None

\* Lines 564-566: a trailing +0000 or -0000 becomes +00:00 or -00:00.
zero_offset_fixed(date_str) ==
    LET tail == date_str.tail
        last5 == SubSeq(tail, Len(tail) - 4, Len(tail))
    IN  IF Len(tail) >= 5 /\ last5 \in {<<"+", "0", "0", "0", "0">>,
                                         <<"-", "0", "0", "0", "0">>}
        THEN [date_str EXCEPT !.tail =
                 SubSeq(tail, 1, Len(tail) - 5)
                     \o <<last5[1], "0", "0", ":", "0", "0">>]
        ELSE date_str

\* Line 567: str.replace('Z', '+00:00') on the characters after the date.
RECURSIVE replace_Z(_)
replace_Z(tail) ==
    IF tail = <<>> THEN <<>>
    ELSE (IF tail[1] = "Z" THEN <<"+", "0", "0", ":", "0", "0">> ELSE <<tail[1]>>)
             \o replace_Z(Tail(tail))

\* Lines 562-569: datetime.fromisoformat accepts a date without offset and
\* returns a datetime without timezone, accepts one with +HH:MM, and raises
\* ValueError (caught: None) on other text.
fromisoformat(date_str) ==
    LET tail == replace_Z(zero_offset_fixed(date_str).tail)
    IN  IF date_str.body /\ tail = <<>>
        THEN Some([wall |-> date_str.wall, off |-> 0, aware |-> FALSE])
        ELSE IF date_str.body /\ Len(tail) = 6 /\ utcoffset(tail) # None
        THEN Some([wall |-> date_str.wall, off |-> utcoffset(tail)[1],
                   aware |-> TRUE])
        ELSE None

\* _parse_ticktick_date: None and '' fail at once, then the first strategy
\* that succeeds wins.
_parse_ticktick_date(date_str) ==
    IF falsy(date_str) THEN None
    ELSE IF strptime_frac(date_str) # None THEN strptime_frac(date_str)
    ELSE IF strptime_whole(normalized_date(date_str)) # None
         THEN strptime_whole(normalized_date(date_str))
    ELSE fromisoformat(normalized_date(date_str))

(***************************************************************************)
(* The data the remote service may hold.  The clock starts one second      *)
(* before a UTC midnight, so that one tick crosses it.                     *)
(***************************************************************************)
StartNow == 10 * 86400 - 1

Text(str) ==
    CASE str = "Ab" -> <<"A", "b">>
      [] str = "xa" -> <<"x", "a">>
      [] str = "c" -> <<"c">>
      [] str = "A b" -> <<"A", " ", "b">>
      [] str = "A" -> <<"A">>
      [] str = " " -> <<" ">>
      [] str = "" -> <<>>
      [] str = "inbox" -> <<"i", "n", "b", "o", "x">>
      [] str = "Inbox" -> <<"I", "n", "b", "o", "x">>
      [] str = "INBOX" -> <<"I", "N", "B", "O", "X">>
      [] str = "Work" -> <<"W", "o", "r", "k">>

Task(id, title, content, items, dueDate, priority) ==
    [id |-> id, title |-> title, content |-> content, items |-> items,
     dueDate |-> dueDate, priority |-> priority]

TaskPool ==
    { \* due exactly at the first clock reading: overdue only after a tick
      Task("t1", Some(Text("Ab")), None, None,
           Some(DateStr(StartNow, FALSE, <<"+", "0", "0", "0", "0">>)), Some(5)),
      \* no title, no due date, no priority
      Task("t2", None, Some(Text("xa")), Some(<<>>), None, None),
      \* a due date without offset, one subtask
      Task("t3", Some(Text("c")), None,
           Some(<<[title |-> Some(Text("A b")), status |-> 1]>>),
           Some(DateStr(StartNow + 3601, FALSE, <<>>)), Some(0)) }

(***************************************************************************)
(* The due dates of the model: the shapes the parser distinguishes, UTC    *)
(* offsets on both sides of zero, and days around both ends of the         *)
(* seven-day window.                                                       *)
(***************************************************************************)
DigitChar(n) ==
    CASE n = 0 -> "0" [] n = 1 -> "1" [] n = 2 -> "2" [] n = 3 -> "3"
      [] n = 4 -> "4" [] n = 5 -> "5" [] n = 6 -> "6" [] n = 7 -> "7"
      [] n = 8 -> "8" [] n = 9 -> "9"

TwoDigits(n) == <<DigitChar(n \div 10), DigitChar(n % 10)>>

\* The offset off (seconds) written as +HHMM, or +HH:MM when colon.
OffsetText(off, colon) ==
    LET a == IF off < 0 THEN -off ELSE off
    IN  <<IF off < 0 THEN "-" ELSE "+">>
            \o TwoDigits(a \div 3600)
            \o (IF colon THEN <<":">> ELSE <<>>)
            \o TwoDigits((a % 3600) \div 60)

\* UTC, +01:00 and -05:30.
OffsetPool == {0, 3600, -19800}

\* What may follow the seconds: nothing, Z, or an offset in either form.
TailPool ==
    {<<>>, <<"Z">>} \cup { OffsetText(off, colon) : off \in OffsetPool,
                                                    colon \in BOOLEAN }

\* Due days from the day before StartNow's to eight days after, each at the
\* last second of the day, one second earlier and at the next midnight.
WallPool ==
    { StartNow + d * 86400 + s : d \in {-1, 0, 1, 7, 8}, s \in {-1, 0, 1} }

\* Text that is no date: the empty string, a short one, one that ends like
\* an offset.
PlainPool ==
    { PlainStr(<<>>), PlainStr(<<"x", "a">>),
      PlainStr(<<"c", "+", "1", "2", "3", "4">>) }

DuePool ==
    { DateStr(wall, frac, tail) :
          wall \in WallPool, frac \in BOOLEAN, tail \in TailPool }
        \cup PlainPool

\* The due dates the remote service holds.
ServiceDueDates ==
    { task.dueDate[1] : task \in { x \in TaskPool : x.dueDate # None } }

\* _parse_ticktick_date depends on its argument alone: its value on each
\* due date of the service.
parsed_due_dates ==
    [date_str \in ServiceDueDates |-> _parse_ticktick_date(date_str)]

(***************************************************************************)
(* The per-task helpers.                                                   *)
(***************************************************************************)
\* datetime.date(): the calendar day of the datetime's own wall clock.
date(dt) == dt.wall \div 86400

\* The instant of an aware datetime, UTC seconds.
instant(dt) == dt.wall - dt.off

\* datetime.now(timezone.utc) at clock reading n.
utcnow(n) == [wall |-> n, off |-> 0, aware |-> TRUE]

\* task.get('dueDate') parsed, or None when absent, empty or unparseable
\* (lines 575-581, 589-595, 601-607, 813-819).
due_dt(task) ==
    IF task.dueDate = None THEN None
    ELSE IF task.dueDate[1] \in ServiceDueDates
         THEN parsed_due_dates[task.dueDate[1]]
    ELSE _parse_ticktick_date(task.dueDate[1])

_is_task_due_today(task, n) ==
    due_dt(task) # None /\ date(due_dt(task)[1]) = date(utcnow(n))

\* Line 597 compares the parsed datetime with an aware one: Python raises
\* TypeError when the parsed one carries no timezone.
_is_task_overdue_raises(task) ==
    due_dt(task) # None /\ ~due_dt(task)[1].aware

_is_task_overdue(task, n) ==
    due_dt(task) # None /\ instant(due_dt(task)[1]) < instant(utcnow(n))

_is_task_due_in_days(task, days, n) ==
    due_dt(task) # None
    /\ date(due_dt(task)[1]) = date(utcnow(n + days * 86400))

\* Line 824 with the last day of the window left out.
within_week_exclusive(task, n) ==
    due_dt(task) # None
    /\ date(utcnow(n)) <= date(due_dt(task)[1])
    /\ date(due_dt(task)[1]) < date(utcnow(n)) + 7

\* Lines 812-824: the inline window of "this_week" and "next_7_days".
within_week(task, n) ==
    due_dt(task) # None
    /\ date(utcnow(n)) <= date(due_dt(task)[1])
    /\ date(due_dt(task)[1]) <= date(utcnow(n)) + 7

\* _task_matches_search without the loop of lines 628-632.
_task_matches_search_without_items(task, search_term) ==
    LET term == lower(search_term)
    IN  \/ contains(lower(Get(task.title, <<>>)), term)
        \/ contains(lower(Get(task.content, <<>>)), term)

\* _task_matches_search: title, content, then each subtask title.
_task_matches_search(task, search_term) ==
    LET term == lower(search_term)
        items == Get(task.items, <<>>)
    IN  \/ contains(lower(Get(task.title, <<>>)), term)
        \/ contains(lower(Get(task.content, <<>>)), term)
        \/ \E k \in 1..Len(items) :
              contains(lower(Get(items[k].title, <<>>)), term)

Project(id, name, closed) == [id |-> id, name |-> name, closed |-> closed]

ProjectPool ==
    { Project("p1", Text("Work"), FALSE),
      Project("p2", Text("Inbox"), TRUE),
      Project("p3", Text("INBOX"), FALSE) }

\* The lists of at most n distinct elements of S.
RECURSIVE ListsOf(_, _)
ListsOf(S, n) ==
    IF n = 0 THEN {<<>>}
    ELSE LET shorter == ListsOf(S, n - 1)
         IN  shorter \cup
             { Append(l, x) : l \in { m \in shorter : Len(m) = n - 1 },
                              x \in S }

Distinct(l) == \A a, b \in 1..Len(l) : l[a] = l[b] => a = b

ProjectLists == { l \in ListsOf(ProjectPool, MaxProjects) : Distinct(l) }
TaskLists == { l \in ListsOf(TaskPool, MaxTasks) : Distinct(l) }

(***************************************************************************)
(* What a call of the remote client may do: return its payload, return a   *)
(* mapping with an 'error' message, or raise.                              *)
(***************************************************************************)
Ok(payload) == [outcome |-> "ok", payload |-> payload]
Failure == [outcome |-> "error", payload |-> <<>>]
Raise == [outcome |-> "raise", payload |-> <<>>]

get_projects_outcomes == { Ok(l) : l \in ProjectLists } \cup {Failure, Raise}
get_project_with_data_outcomes ==
    { Ok(l) : l \in TaskLists } \cup {Failure, Raise}

Call(op, arg) == [op |-> op, arg |-> arg]

(***************************************************************************)
(* Rendering.  format_project and format_task keep the fields they print.  *)
(***************************************************************************)
PRIORITY_MAP == {0, 1, 3, 5}

PriorityName(p) ==
    CASE p = 0 -> "None" [] p = 1 -> "Low" [] p = 3 -> "Medium"
      [] p = 5 -> "High" [] OTHER -> "str(priority)"

format_project(project) ==
    [name |-> project.name, id |-> project.id,
     closed |-> IF project.closed THEN "Yes" ELSE "No"]

format_task(task) ==
    [id |-> task.id, title |-> task.title, dueDate |-> task.dueDate,
     priority |-> PriorityName(Get(task.priority, 0)),
     content |-> IF Get(task.content, <<>>) = <<>> THEN None ELSE task.content,
     subtasks |-> Get(task.items, <<>>)]

(***************************************************************************)
(* The strings filter_tasks returns.                                       *)
(***************************************************************************)
Msg(kind, detail) == [kind |-> kind, detail |-> detail, n |-> 0, groups |-> <<>>]

valid_date_filters ==
    <<"all", "today", "tomorrow", "overdue", "this_week", "next_7_days">>

InitFailed == Msg("Failed to initialize TickTick client", <<>>)
InvalidDateFilter == Msg("Invalid date_filter. Valid values", valid_date_filters)
InvalidPriority == Msg("Invalid priority. Valid values", <<"0", "1", "3", "5">>)
EmptySearchTerm == Msg("Search term cannot be empty.", <<>>)
ErrorFetchingProjects == Msg("Error fetching projects", <<"error">>)
NotFound(project_id) == Msg("Project not found.", <<project_id>>)
NoProjectsFound == Msg("No projects found.", <<>>)
ErrorFilteringTasks == Msg("Error filtering tasks", <<"str(e)">>)

\* Line 689: the header of the report, and lines 700-713: one project group.
Header(n, filter_name) ==
    [kind |-> "Found n projects", detail |-> filter_name, n |-> n, groups |-> <<>>]

Group(index, project, rendered) ==
    [i |-> index, project |-> format_project(project),
     count |-> Len(rendered), tasks |-> rendered]

(***************************************************************************)
(* filter_tasks: validation (lines 763-774).                               *)
(***************************************************************************)
InSeq(x, l) == \E k \in 1..Len(l) : l[k] = x

\* The search term tested without strip().
search_term_valid_unstripped(search_term) ==
    search_term = None \/ search_term[1] # <<>>

date_filter_valid(date_filter) == InSeq(date_filter, valid_date_filters)

priority_valid(priority) == priority = None \/ priority[1] \in PRIORITY_MAP

search_term_valid(search_term) ==
    search_term = None \/ strip(search_term[1]) # <<>>

\* The validation failure for arguments a, or None when they pass.
validation_error(a) ==
    IF ~date_filter_valid(a.date_filter) THEN Some(InvalidDateFilter)
    ELSE IF ~priority_valid(a.priority) THEN Some(InvalidPriority)
    ELSE IF ~search_term_valid(a.search_term) THEN Some(EmptySearchTerm)
    ELSE None

(***************************************************************************)
(* filter_tasks: project resolution (lines 778-794).                       *)
(***************************************************************************)
\* The name compared without case folding.
project_matches_case_sensitive(p, project_id) ==
    \/ p.id = project_id
    \/ (project_id = "inbox" /\ p.name = Text("inbox"))

\* `if project_id:` is false for None and for the empty string.
project_id_given(project_id) == project_id # None /\ project_id[1] # ""

project_matches(p, project_id) ==
    \/ p.id = project_id
    \/ (project_id = "inbox" /\ lower(p.name) = Text("inbox"))

\* The first project of plist the loop of lines 786-789 stops at.
find_project(plist, project_id) ==
    LET hits == { k \in 1..Len(plist) :
                    project_matches(plist[k], project_id) }
    IN  IF hits = {} THEN None
        ELSE Some(plist[CHOOSE k \in hits : \A m \in hits : k <= m])

(***************************************************************************)
(* filter_tasks.task_filter (lines 802-840) at clock reading n.            *)
(***************************************************************************)
date_match(task, a, n) ==
    CASE a.date_filter = "all" -> TRUE
      [] a.date_filter = "today" -> _is_task_due_today(task, n)
      [] a.date_filter = "tomorrow" -> _is_task_due_in_days(task, 1, n)
      [] a.date_filter = "overdue" -> _is_task_overdue(task, n)
      [] a.date_filter \in {"this_week", "next_7_days"} -> within_week(task, n)
      [] OTHER -> TRUE

\* `if not priority:` in place of `if priority is None:`.
priority_match_falsy(task, a) ==
    IF a.priority = None \/ a.priority[1] = 0 THEN TRUE
    ELSE Get(task.priority, 0) = a.priority[1]

priority_match(task, a) ==
    IF a.priority = None THEN TRUE
    ELSE Get(task.priority, 0) = a.priority[1]

search_match(task, a) ==
    IF a.search_term = None THEN TRUE
    ELSE _task_matches_search(task, a.search_term[1])

task_filter_raises(task, a) ==
    a.date_filter = "overdue" /\ _is_task_overdue_raises(task)

task_filter(task, a, n) ==
    date_match(task, a, n) /\ priority_match(task, a) /\ search_match(task, a)

\* Lines 843-853: the parts of the filter description.
filter_name(a) ==
    (IF a.date_filter # "all" THEN <<a.date_filter>> ELSE <<>>)
    \o (IF a.priority # None THEN <<"priority">> ELSE <<>>)
    \o (IF a.search_term # None /\ a.search_term[1] # <<>>
        THEN <<"matching">> ELSE <<>>)
    \o (IF project_id_given(a.project_id) THEN <<"in project">> ELSE <<>>)

(***************************************************************************)
(* initialize_client (lines 23-49): what one call may do to the global     *)
(* handle, which client operations it invokes, and what it returns.        *)
(*   - no access token, or load_dotenv / the constructor raised: the       *)
(*     handle is not assigned and nothing is called;                       *)
(*   - the connectivity check get_projects failed or raised: the handle    *)
(*     was assigned on line 35 and False is returned;                      *)
(*   - the check succeeded: True.                                          *)
(***************************************************************************)
initialize_client_outcomes ==
    { [returns |-> FALSE, handle |-> "None", called |-> <<>>],
      [returns |-> FALSE, handle |-> "client",
       called |-> <<Call("get_projects", "")>>],
      [returns |-> TRUE, handle |-> "client",
       called |-> <<Call("get_projects", "")>>] }

\* The guard of line 759 dropped: every invocation initialises again.
needs_initialize_always(handle) == TRUE

\* `if not ticktick:` (line 759).
needs_initialize(handle) == handle = "None"

(***************************************************************************)
(* The arguments a caller may pass.                                        *)
(***************************************************************************)
DateFilterArgs ==
    {"all", "today", "tomorrow", "overdue", "this_week", "next_7_days", "invalid"}
PriorityArgs == {None, Some(0), Some(99)}
SearchTermArgs == {None, Some(Text("A")), Some(Text(" "))}
ProjectIdArgs == {None, Some("p1"), Some("inbox"), Some("zz")}

Args ==
    [date_filter : DateFilterArgs, priority : PriorityArgs,
     search_term : SearchTermArgs, project_id : ProjectIdArgs]

NoArgs ==
    [date_filter |-> "all", priority |-> None, search_term |-> None,
     project_id |-> None]

(***************************************************************************)
(* The state machine.                                                      *)
(***************************************************************************)
Init ==
    /\ ticktick = "None"
    /\ pc = "idle"
    /\ args = NoArgs
    /\ now = StartNow
    /\ ticks = 0
    /\ calls = <<>>
    /\ projects_data = None
    /\ projects = <<>>
    /\ i = 0
    /\ tasks = <<>>
    /\ t = 0
    /\ filtered_tasks = <<>>
    /\ result = None
    /\ ticktick0 = "None"
    /\ fetches = <<>>
    /\ evals = <<>>
    /\ ret = None

\* `return msg`: the invocation ends with the string msg.
Return(msg) ==
    /\ pc' = "done"
    /\ ret' = Some(msg)

\* No handler: the exception leaves filter_tasks.
ExceptPropagates ==
    /\ pc' = "raised"
    /\ ret' = ret

\* The exception handler of lines 857-859.
Except == Return(ErrorFilteringTasks)

\* A caller invokes filter_tasks(date_filter, priority, search_term, project_id).
Invoke ==
    /\ pc = "idle"
    /\ \E a \in Args : args' = a
    /\ pc' = "init"
    /\ ticktick0' = ticktick
    /\ UNCHANGED <<ticktick, now, ticks, calls, projects_data, projects, i, tasks, t,
                   filtered_tasks, result, fetches, evals, ret>>

\* Lines 759-761.
EnsureClient ==
    /\ pc = "init"
    /\ IF needs_initialize(ticktick)
       THEN \E o \in initialize_client_outcomes :
               /\ ticktick' = o.handle
               /\ calls' = calls \o o.called
               /\ IF o.returns
                  THEN pc' = "validate" /\ ret' = ret
                  ELSE Return(InitFailed)
       ELSE /\ pc' = "validate"
            /\ UNCHANGED <<ticktick, calls, ret>>
    /\ UNCHANGED <<args, now, ticks, projects_data, projects, i, tasks, t, filtered_tasks,
                   result, ticktick0, fetches, evals>>

\* Lines 763-774.
Validate ==
    /\ pc = "validate"
    /\ IF validation_error(args) # None
       THEN Return(validation_error(args)[1])
       ELSE pc' = "resolve" /\ ret' = ret
    /\ UNCHANGED <<ticktick, args, now, ticks, calls, projects_data, projects, i, tasks, t,
                   filtered_tasks, result, ticktick0, fetches, evals>>

\* Lines 686-689: _get_project_tasks_by_filter begins on the list ps.
BeginScan(ps) ==
    IF ps = <<>>
    THEN /\ Return(NoProjectsFound)
         /\ UNCHANGED <<projects, i, result>>
    ELSE /\ projects' = ps
         /\ i' = 1
         /\ result' = Some(Header(Len(ps), filter_name(args)))
         /\ pc' = "scan"
         /\ ret' = ret

\* Lines 776-799 and 842-855, up to the loop of _get_project_tasks_by_filter.
Resolve ==
    /\ pc = "resolve"
    /\ calls' = Append(calls, Call("get_projects", ""))
    /\ \E o \in get_projects_outcomes :
          CASE o.outcome = "raise" ->
                 Except /\ UNCHANGED <<projects_data, projects, i, result>>
            [] o.outcome = "error" ->
                 /\ Return(ErrorFetchingProjects)
                 /\ UNCHANGED <<projects_data, projects, i, result>>
            [] OTHER ->
                 IF project_id_given(args.project_id)
                 THEN LET project == find_project(o.payload, args.project_id[1])
                      IN  /\ projects_data' = Some(o.payload)
                          /\ IF project = None
                             THEN /\ Return(NotFound(args.project_id[1]))
                                  /\ UNCHANGED <<projects, i, result>>
                             ELSE BeginScan(project)
                 ELSE /\ BeginScan(o.payload)
                      /\ UNCHANGED projects_data
    /\ UNCHANGED <<ticktick, args, now, ticks, tasks, t, filtered_tasks,
                   ticktick0, fetches, evals>>

\* The test of line 692 never taken: closed projects are scanned too.
is_closed_never(project) == FALSE

\* `if project.get('closed'):` (line 692).
is_closed(project) == project.closed

\* Lines 692-693: a closed project is passed over.
SkipClosed ==
    /\ pc = "scan"
    /\ i <= Len(projects)
    /\ is_closed(projects[i])
    /\ i' = i + 1
    /\ UNCHANGED <<ticktick, pc, args, now, ticks, calls, projects_data, projects, tasks, t,
                   filtered_tasks, result, ticktick0, fetches, evals, ret>>

\* Lines 707-713: the report with the group of a project appended.
append_group(report, index, project, rendered) ==
    [report EXCEPT !.groups = Append(@, Group(index, project, rendered))]

\* A project without tasks left out of the report.
zero_group_omitted(report, index, project) == report

\* Lines 699-702: the report with the "0 tasks" group of a project appended.
zero_group(report, index, project) == append_group(report, index, project, <<>>)

\* The matches rendered last to first.
render_reversed(filtered) ==
    [k \in 1..Len(filtered) |->
        <<filtered[Len(filtered) + 1 - k][1],
          format_task(filtered[Len(filtered) + 1 - k][2])>>]

\* Lines 708-711: the blocks "Task {t}: format_task(task)" of the matches.
render(filtered) ==
    [k \in 1..Len(filtered) |-> <<filtered[k][1], format_task(filtered[k][2])>>]

\* project_data.get('tasks', []) on what get_project_with_data returned.
tasks_of(o) == IF o.outcome = "ok" THEN o.payload ELSE <<>>

\* Line 696 invoked twice for one project.
fetch_calls_twice(project) ==
    <<Call("get_project_with_data", project.id),
      Call("get_project_with_data", project.id)>>

\* Line 696: one get_project_with_data per project of the loop.
fetch_calls(project) == <<Call("get_project_with_data", project.id)>>

\* Lines 695-702: the project's tasks are fetched.
FetchProject ==
    /\ pc = "scan"
    /\ i <= Len(projects)
    /\ ~is_closed(projects[i])
    /\ calls' = calls \o fetch_calls(projects[i])
    /\ \E o \in get_project_with_data_outcomes :
          /\ fetches' = Append(fetches, [i |-> i, id |-> projects[i].id,
                                         outcome |-> o.outcome,
                                         tasks |-> tasks_of(o)])
          /\ CASE o.outcome = "raise" ->
                    Except /\ UNCHANGED <<i, tasks, t, filtered_tasks, result>>
               [] tasks_of(o) = <<>> /\ o.outcome # "raise" ->
                    /\ result' = Some(zero_group(result[1], i, projects[i]))
                    /\ i' = i + 1
                    /\ UNCHANGED <<pc, tasks, t, filtered_tasks, ret>>
               [] OTHER ->
                    /\ tasks' = tasks_of(o)
                    /\ t' = 1
                    /\ filtered_tasks' = <<>>
                    /\ pc' = "filter"
                    /\ UNCHANGED <<i, result, ret>>
    /\ UNCHANGED <<ticktick, args, now, ticks, projects_data, projects, ticktick0,
                   evals>>

\* Whether task_filter reads the clock (datetime.now) for these arguments.
reads_clock(a, task) ==
    /\ a.date_filter \in {"today", "tomorrow", "overdue", "this_week", "next_7_days"}
    /\ due_dt(task) # None

\* The readings datetime.now may give: the clock never runs backwards.
clock_readings(reads) ==
    IF reads THEN { now + d : d \in 0..(MaxTicks - ticks) } ELSE {now}

\* Line 705: the list comprehension evaluates filter_func on the next task,
\* which reads the clock at most once.
FilterTask ==
    /\ pc = "filter"
    /\ t <= Len(tasks)
    /\ \E n \in clock_readings(reads_clock(args, tasks[t])) :
          /\ now' = n
          /\ ticks' = ticks + (n - now)
          /\ IF task_filter_raises(tasks[t], args)
             THEN Except /\ UNCHANGED <<t, filtered_tasks, evals>>
             ELSE /\ filtered_tasks' =
                        IF task_filter(tasks[t], args, n)
                        THEN Append(filtered_tasks, <<t, tasks[t]>>)
                        ELSE filtered_tasks
                  /\ evals' = Append(evals,
                        [i |-> i, t |-> t, task |-> tasks[t], now |-> n,
                         match |-> task_filter(tasks[t], args, n)])
                  /\ t' = t + 1
                  /\ UNCHANGED <<pc, ret>>
    /\ UNCHANGED <<ticktick, args, calls, projects_data, projects, i, tasks,
                   result, ticktick0, fetches>>

\* Lines 707-713: the group of the project is appended to the report.
RenderGroup ==
    /\ pc = "filter"
    /\ t > Len(tasks)
    /\ result' = Some(append_group(result[1], i, projects[i],
                                    render(filtered_tasks)))
    /\ i' = i + 1
    /\ pc' = "scan"
    /\ tasks' = <<>>
    /\ t' = 0
    /\ filtered_tasks' = <<>>
    /\ UNCHANGED <<ticktick, args, now, ticks, calls, projects_data, projects,
                   ticktick0, fetches, evals, ret>>

\* Line 715, returned through line 855.
ScanDone ==
    /\ pc = "scan"
    /\ i > Len(projects)
    /\ Return(result[1])
    /\ UNCHANGED <<ticktick, args, now, ticks, calls, projects_data, projects, i, tasks, t,
                   filtered_tasks, result, ticktick0, fetches, evals>>

\* The caller has the returned string; the next invocation may begin.  Only
\* the global handle and the clock outlive an invocation.
Finish ==
    /\ pc = "done"
    /\ pc' = "idle"
    /\ args' = NoArgs
    /\ calls' = <<>>
    /\ projects_data' = None
    /\ projects' = <<>>
    /\ i' = 0
    /\ tasks' = <<>>
    /\ t' = 0
    /\ filtered_tasks' = <<>>
    /\ result' = None
    /\ ticktick0' = ticktick
    /\ fetches' = <<>>
    /\ evals' = <<>>
    /\ ret' = None
    /\ UNCHANGED <<ticktick, now, ticks>>

Next ==
    \/ Invoke
    \/ EnsureClient
    \/ Validate
    \/ Resolve
    \/ SkipClosed
    \/ FetchProject
    \/ FilterTask
    \/ RenderGroup
    \/ ScanDone
    \/ Finish

Spec == Init /\ [][Next]_vars

(***************************************************************************)
(* The per-task functions on their own.  ClassifySpec and SearchSpec begin *)
(* where line 705 is about to evaluate the filter on the one task of the   *)
(* one project of a scan, the task, the arguments and the clock reading    *)
(* being drawn from the pools; ParseSpec applies _parse_ticktick_date to   *)
(* one argument.                                                           *)
(***************************************************************************)
\* Tasks that differ in their due date only.
DueTasks ==
    { Task("t1", None, None, None, d, None) :
          d \in {None} \cup { Some(date_str) : date_str \in DuePool } }

\* The last second of a UTC day and the midnight after it.
NowPool == {StartNow, StartNow + 1}

DateArgs ==
    [date_filter : { valid_date_filters[k] : k \in 1..Len(valid_date_filters) },
     priority : {None}, search_term : {None}, project_id : {None}]

\* Line 705 about to evaluate the filter of arguments a on the task at
\* clock reading n: the invocation has listed the projects, got the one
\* project and fetched its one task.
EvalInit(a, task, n) ==
    /\ ticktick = "client"
    /\ pc = "filter"
    /\ args = a
    /\ now = n
    /\ ticks = MaxTicks
    /\ calls = <<Call("get_projects", "")>> \o fetch_calls(Project("p1", Text("Work"), FALSE))
    /\ projects_data = None
    /\ projects = <<Project("p1", Text("Work"), FALSE)>>
    /\ i = 1
    /\ tasks = <<task>>
    /\ t = 1
    /\ filtered_tasks = <<>>
    /\ result = Some(Header(1, filter_name(a)))
    /\ ticktick0 = "client"
    /\ fetches = <<[i |-> 1, id |-> "p1", outcome |-> "ok", tasks |-> <<task>>]>>
    /\ evals = <<>>
    /\ ret = None

\* The rest of the scan of the one project.
EvalNext ==
    \/ FilterTask
    \/ RenderGroup
    \/ ScanDone

ClassifyInit ==
    \E a \in DateArgs, task \in DueTasks, n \in NowPool : EvalInit(a, task, n)

\* The date windows of task_filter applied to one task.
ClassifySpec == ClassifyInit /\ [][EvalNext]_vars

\* What _parse_ticktick_date may be handed: the due dates above and None.
ParsePool == DuePool \cup {NoneStr}

\* _parse_ticktick_date about to be applied: args holds its argument, ret
\* will hold what it returned.
ParseInit ==
    /\ ticktick = "None"
    /\ pc = "parse"
    /\ args \in ParsePool
    /\ now = StartNow
    /\ ticks = 0
    /\ calls = <<>>
    /\ projects_data = None
    /\ projects = <<>>
    /\ i = 0
    /\ tasks = <<>>
    /\ t = 0
    /\ filtered_tasks = <<>>
    /\ result = None
    /\ ticktick0 = "None"
    /\ fetches = <<>>
    /\ evals = <<>>
    /\ ret = None

\* Lines 535-571: the call returns a datetime or None.
Parse ==
    /\ pc = "parse"
    /\ ret' = Some(_parse_ticktick_date(args))
    /\ pc' = "parsed"
    /\ UNCHANGED <<ticktick, args, now, ticks, calls, projects_data, projects, i,
                   tasks, t, filtered_tasks, result, ticktick0, fetches, evals>>

\* _parse_ticktick_date applied to one argument.
ParseSpec == ParseInit /\ [][Parse]_vars

\* Subtask items, with and without a title.
Item(title) == [title |-> title, status |-> 0]

ItemsPool ==
    { None, Some(<<>>), Some(<<Item(None)>>),
      Some(<<Item(Some(<<"A", " ", "b">>))>>),
      Some(<<Item(Some(<<"c">>)), Item(Some(<<"X", "A">>))>>) }

\* Tasks that differ in their searchable text only.
SearchTasks ==
    { Task("t1", title, content, items, None, None) :
          title \in {None, Some(<<"A", "b">>), Some(<<"c">>)},
          content \in {None, Some(<<"x", "a">>), Some(<<"B">>)},
          items \in ItemsPool }

\* Search terms that pass the validation of line 773; "bx" occurs only
\* across two surfaces, never inside one.
TermPool ==
    { <<"A">>, <<"b">>, <<"a", "B">>, <<"X", "a">>, <<"c">>, <<"b", "x">> }

SearchArgs ==
    [date_filter : {"all"}, priority : {None},
     search_term : { Some(term) : term \in TermPool }, project_id : {None}]

SearchInit ==
    \E a \in SearchArgs, task \in SearchTasks : EvalInit(a, task, StartNow)

\* _task_matches_search applied to one task.
SearchSpec == SearchInit /\ [][EvalNext]_vars

(***************************************************************************)
(* Properties.                                                             *)
(***************************************************************************)
Done == pc = "done"
Returned == ret[1]
ValidationKinds ==
    {InvalidDateFilter.kind, InvalidPriority.kind, EmptySearchTerm.kind}
ReturnedValidationFailure == Done /\ Returned.kind \in ValidationKinds
ReturnedReport == Done /\ Returned.kind = "Found n projects"
FetchCalls == { k \in 1..Len(calls) : calls[k].op = "get_project_with_data" }

\* C1 as stated: whatever the client handle was when filter_tasks was
\* invoked, an invocation that returns a validation failure has invoked no
\* operation of the remote client.
C1_ValidationNeverTouchesNetwork ==
    ReturnedValidationFailure => calls = <<>>

\* C1, amended: an invocation of filter_tasks that begins with the client
\* handle already set and returns a validation failure has invoked no
\* operation of the remote client.
C1_ValidationNoNetworkWhenInitialized ==
    (ReturnedValidationFailure /\ ticktick0 # "None") => calls = <<>>

C1_Witness ==
    /\ Done
    /\ ticktick0 = "client"
    /\ Returned = InvalidPriority
    /\ calls = <<>>

\* C2: without a project_id, get_project_with_data is invoked only with ids
\* of projects of the list whose closed flag is false, never with the id of
\* a closed one, and no group of the report belongs to a closed project.
C2_ClosedProjectsNeverFetched ==
    ~project_id_given(args.project_id) =>
        /\ \A k \in FetchCalls :
              /\ \E m \in 1..Len(projects) :
                    projects[m].id = calls[k].arg /\ ~projects[m].closed
              /\ ~\E m \in 1..Len(projects) :
                    projects[m].id = calls[k].arg /\ projects[m].closed
        /\ result # None =>
              \A g \in 1..Len(result[1].groups) :
                  ~projects[result[1].groups[g].i].closed

C2_Witness ==
    /\ ReturnedReport
    /\ ~project_id_given(args.project_id)
    /\ Len(projects) = 2
    /\ projects[1].closed
    /\ ~projects[2].closed
    /\ calls = <<Call("get_projects", ""),
                 Call("get_project_with_data", projects[2].id)>>
    /\ Len(Returned.groups) = 1

\* The group of the returned report for the project at index m, if any.
GroupsOf(m) ==
    { g \in 1..Len(Returned.groups) : Returned.groups[g].i = m }

\* C3: when the task fetch of one project fails (a failure outcome or an
\* exception), the groups produced for the projects fetched before it are
\* still in what filter_tasks returns.
C3_EarlierGroupsSurviveFailure ==
    Done =>
        \A k \in 1..Len(fetches) :
            fetches[k].outcome # "ok" =>
                \A m \in 1..(k - 1) : GroupsOf(fetches[m].i) # {}

\* C4: when get_project_with_data returns a failure outcome for a scanned
\* project, what filter_tasks returns does not show that project as an
\* ordinary group with 0 matching tasks.
C4_FetchFailureSurfaced ==
    Done =>
        \A k \in 1..Len(fetches) :
            fetches[k].outcome = "error" =>
                ~\E g \in GroupsOf(fetches[k].i) : Returned.groups[g].count = 0

\* C5: with a project_id, the project scanned is the first project of the
\* list returned by get_projects whose id equals project_id or, for the
\* keyword "inbox", whose name is "inbox" in any letter case; when there is
\* none, filter_tasks returns "Project '<project_id>' not found." and never
\* invokes get_project_with_data.
C5_Resolves(k) ==
    \/ projects_data[1][k].id = args.project_id[1]
    \/ /\ args.project_id[1] = "inbox"
       /\ lower(projects_data[1][k].name) = <<"i", "n", "b", "o", "x">>

C5_ProjectResolution ==
    (project_id_given(args.project_id) /\ projects_data # None) =>
        IF \E k \in 1..Len(projects_data[1]) : C5_Resolves(k)
        THEN \E k \in 1..Len(projects_data[1]) :
                /\ C5_Resolves(k)
                /\ \A m \in 1..(k - 1) : ~C5_Resolves(m)
                /\ projects = <<projects_data[1][k]>>
        ELSE /\ Done
             /\ Returned = NotFound(args.project_id[1])
             /\ FetchCalls = {}

C5_Witness ==
    /\ Done
    /\ args.project_id = Some("inbox")
    /\ projects_data # None
    /\ Len(projects_data[1]) = 2
    /\ projects_data[1][1].id = "p3"
    /\ projects_data[1][2].id = "p2"
    /\ projects = <<projects_data[1][1]>>
    /\ FetchCalls # {}

\* C6: an invocation that gets past client initialisation returns a
\* validation failure exactly when date_filter is not one of the six legal
\* values, or priority is given and is not 0, 1, 3 or 5, or search_term is
\* given and is blank; the date_filter and priority messages list the legal
\* values, and every other input goes on to fetch the project list.
C6_Blank(str) == \A k \in 1..Len(str) : str[k] = " "

C6_Invalid(a) ==
    \/ a.date_filter \notin
          {"all", "today", "tomorrow", "overdue", "this_week", "next_7_days"}
    \/ (a.priority # None /\ a.priority[1] \notin {0, 1, 3, 5})
    \/ (a.search_term # None /\ C6_Blank(a.search_term[1]))

C6_ValidationExact ==
    (Done /\ Returned # InitFailed) =>
        /\ C6_Invalid(args) <=> Returned.kind \in ValidationKinds
        /\ Returned.kind = InvalidDateFilter.kind =>
              Returned.detail = <<"all", "today", "tomorrow", "overdue",
                                  "this_week", "next_7_days">>
        /\ Returned.kind = InvalidPriority.kind =>
              Returned.detail = <<"0", "1", "3", "5">>
        /\ ~C6_Invalid(args) =>
              /\ Returned.kind \in
                    { ErrorFetchingProjects.kind, "Project not found.",
                      NoProjectsFound.kind, ErrorFilteringTasks.kind,
                      "Found n projects" }
              /\ \E k \in 1..Len(calls) :
                    /\ calls[k].op = "get_projects"
                    /\ ticktick0 = "None" => k > 1

C6_Witness ==
    /\ Done
    /\ ticktick0 = "client"
    /\ args.date_filter = "today"
    /\ args.priority = Some(0)
    /\ args.search_term = Some(<<" ">>)
    /\ Returned = EmptySearchTerm

\* The evaluations of task_filter made for the project at index m.
EvalsOf(m) == { k \in 1..Len(evals) : evals[k].i = m }

\* The fetch made for the project at index m.
FetchOf(m) == fetches[CHOOSE k \in 1..Len(fetches) : fetches[k].i = m]

\* Whether task number n of the project at index m is in the returned report.
Reported(m, n) ==
    \E g \in GroupsOf(m) :
        \E j \in 1..Len(Returned.groups[g].tasks) :
            Returned.groups[g].tasks[j][1] = n

\* C7: a task is a match, and is in the report, exactly when the date-window
\* condition holds and (priority is None or equals the task's priority, 0
\* when the task has none) and (search_term is None or the text matcher
\* hits); so priority 0 selects only the tasks without a priority.
C7_AllCriteria(e) ==
    /\ date_match(e.task, args, e.now)
    /\ args.priority = None \/ Get(e.task.priority, 0) = args.priority[1]
    /\ args.search_term = None
          \/ _task_matches_search(e.task, args.search_term[1])

C7_MatchIffAllCriteria ==
    /\ \A k \in 1..Len(evals) : evals[k].match <=> C7_AllCriteria(evals[k])
    /\ ReturnedReport =>
          \A k \in 1..Len(evals) :
              Reported(evals[k].i, evals[k].t) <=> C7_AllCriteria(evals[k])

C7_Witness ==
    /\ ReturnedReport
    /\ args.priority = Some(0)
    /\ args.search_term # None
    /\ args.date_filter = "tomorrow"
    /\ \E k \in 1..Len(evals) :
          evals[k].task.priority = Some(5) /\ ~Reported(evals[k].i, evals[k].t)
    /\ \E k \in 1..Len(evals) :
          evals[k].task.priority = Some(0) /\ Reported(evals[k].i, evals[k].t)

\* C8: every project of the scan that is not closed has exactly one group in
\* the report, with its own match count; the count is 0 when the project has
\* no tasks and when none of its tasks matches.
C8_EveryScannedProjectHasGroup ==
    ReturnedReport =>
        \A m \in 1..Len(projects) :
            ~projects[m].closed =>
                /\ Cardinality(GroupsOf(m)) = 1
                /\ \A g \in GroupsOf(m) :
                      /\ Returned.groups[g].project.id = projects[m].id
                      /\ Returned.groups[g].count =
                            Cardinality({ k \in EvalsOf(m) : evals[k].match })

C8_Witness ==
    /\ ReturnedReport
    /\ Len(projects) = 2
    /\ Len(Returned.groups) = 2
    /\ Returned.groups[1].count = 0
    /\ Returned.groups[2].count = 0
    /\ FetchOf(1).outcome = "ok"
    /\ FetchOf(1).tasks = <<>>
    /\ Len(FetchOf(2).tasks) = 2

\* C9: the groups of the report are in the order of the project list, and
\* the tasks of a group are the fetched tasks that matched, each once, in
\* the order in which they were fetched.
C9_OrderPreserved ==
    ReturnedReport =>
        /\ \A g, h \in 1..Len(Returned.groups) :
              g < h => Returned.groups[g].i < Returned.groups[h].i
        /\ \A g \in 1..Len(Returned.groups) :
              LET G == Returned.groups[g]
                  F == FetchOf(G.i)
              IN  /\ G.count = Len(G.tasks)
                  /\ \A j, k \in 1..Len(G.tasks) :
                        j < k => G.tasks[j][1] < G.tasks[k][1]
                  /\ \A j \in 1..Len(G.tasks) :
                        /\ G.tasks[j][1] \in 1..Len(F.tasks)
                        /\ G.tasks[j][2].id = F.tasks[G.tasks[j][1]].id
                  /\ { G.tasks[j][1] : j \in 1..Len(G.tasks) } =
                        { evals[k].t : k \in { e \in EvalsOf(G.i) : evals[e].match } }

C9_Witness ==
    /\ ReturnedReport
    /\ Len(Returned.groups) = 2
    /\ Returned.groups[1].i = 1
    /\ Returned.groups[2].i = 2
    /\ Len(FetchOf(2).tasks) = 2
    /\ Returned.groups[2].count = 2
    /\ Returned.groups[2].tasks[1][1] = 1
    /\ Returned.groups[2].tasks[2][1] = 2

\* C10: whatever the arguments and whatever the remote client does (returns,
\* returns a failure outcome, raises), an invocation of filter_tasks never
\* lets an exception out, can always take its next step until it returns,
\* and returns one of its messages or the report.
ReturnKinds ==
    { InitFailed.kind, InvalidDateFilter.kind, InvalidPriority.kind,
      EmptySearchTerm.kind, ErrorFetchingProjects.kind, "Project not found.",
      NoProjectsFound.kind, ErrorFilteringTasks.kind, "Found n projects" }

C10_AlwaysReturnsString ==
    /\ pc \in {"idle", "init", "validate", "resolve", "scan", "filter", "done"}
    /\ pc \notin {"idle", "done"} => ENABLED Next
    /\ Done => (ret # None /\ Returned.kind \in ReturnKinds)

C10_Witness ==
    /\ Done
    /\ Returned = ErrorFilteringTasks
    /\ Len(fetches) = 2
    /\ fetches[2].outcome = "raise"


(***************************************************************************)
(* The frame of one invocation.                                            *)
(***************************************************************************)
ProjectFetches == SelectSeq(calls, LAMBDA c : c.op = "get_project_with_data")
ListFetches == SelectSeq(calls, LAMBDA c : c.op = "get_projects")
OpenProjects == SelectSeq(projects, LAMBDA p : ~is_closed(p))

\* C11: one invocation of filter_tasks only reads and goes in sequence.  The
\* operations of the client it invokes are get_projects and
\* get_project_with_data, never one that creates, updates, completes or
\* deletes; besides the call of the client's initialization it lists the
\* projects at most once; and the projects whose tasks it has fetched are
\* the first of the non-closed projects of the resolved list, in the order of
\* that list, each fetched once -- all of them when a report is returned.
C11_ReadOnlySequential ==
    /\ \A k \in 1..Len(calls) :
          calls[k].op \in {"get_projects", "get_project_with_data"}
    /\ Len(ListFetches) <= (IF ticktick0 = "None" THEN 2 ELSE 1)
    /\ Len(ProjectFetches) <= Len(OpenProjects)
    /\ \A k \in 1..Len(ProjectFetches) :
          ProjectFetches[k].arg = OpenProjects[k].id
    /\ ReturnedReport => Len(ProjectFetches) = Len(OpenProjects)

\* A report over two non-closed projects: two fetches were made.
C11_Witness ==
    /\ ReturnedReport
    /\ Len(ProjectFetches) = 2
    /\ ProjectFetches[1].arg # ProjectFetches[2].arg


(***************************************************************************)
(* The date windows.                                                       *)
(***************************************************************************)
\* The date string states a UTC offset: it denotes an instant.
CarriesOffset(date_str) == date_str.body /\ utcoffset(date_str.tail) # None

\* The instant a date string with an offset denotes, UTC seconds.
DueInstant(date_str) == date_str.wall - utcoffset(date_str.tail)[1]

UtcDay(seconds) == seconds \div 86400

\* The evaluation of the filter on the one task is over.
Evaluated == pc # "filter"

\* C12: a task whose due date carries a UTC offset matches 'today' exactly
\* when the UTC calendar day of its due instant is the UTC day of now, and
\* 'tomorrow' exactly when it is the day after the UTC day of now.
C12_UtcCalendarDay ==
    \A k \in 1..Len(evals) :
       LET e == evals[k]
           due == e.task.dueDate
       IN  (/\ args.date_filter \in {"today", "tomorrow"}
            /\ due # None
            /\ CarriesOffset(due[1]))
           => (e.match <=>
                   UtcDay(DueInstant(due[1]))
                       = UtcDay(e.now)
                           + (IF args.date_filter = "tomorrow" THEN 1 ELSE 0))

\* C13: a task is overdue exactly when it has a due date that parses to an
\* instant strictly earlier than now; the evaluation always gives an answer.
C13_OverdueIffEarlier ==
    (args.date_filter = "overdue" /\ Evaluated)
    => /\ Len(evals) = 1
       /\ LET e == evals[1]
              due == e.task.dueDate
          IN  e.match <=> (/\ due # None
                           /\ CarriesOffset(due[1])
                           /\ DueInstant(due[1]) < e.now)

\* The calendar day written in a due date that parses, if any.
HasDueDay(task) ==
    /\ task.dueDate # None
    /\ task.dueDate[1].body
    /\ (task.dueDate[1].tail = <<>> \/ utcoffset(task.dueDate[1].tail) # None)

DueDay(task) == task.dueDate[1].wall \div 86400

OtherWeekFilter(a) ==
    [a EXCEPT !.date_filter =
        IF a.date_filter = "this_week" THEN "next_7_days" ELSE "this_week"]

C15_SingleNow ==
    \A j \in 1..Len(evals), k \in 1..Len(evals) :
       /\ (reads_clock(args, evals[j].task) /\ reads_clock(args, evals[k].task))
          => evals[j].now = evals[k].now
       /\ evals[j].task.dueDate = evals[k].task.dueDate
          => (date_match(evals[j].task, args, evals[j].now)
                 <=> date_match(evals[k].task, args, evals[k].now))


\* The task's due date is absent, empty or does not state an instant.
NoAwareInstant(task) ==
    task.dueDate = None \/ ~CarriesOffset(task.dueDate[1])

DateWindows == {"today", "tomorrow", "overdue", "this_week", "next_7_days"}

\* C16: under each of the date windows a task whose due date is absent,
\* empty or not parseable to a timezone-aware instant is classified as not
\* matching, and its evaluation never ends the invocation with the error
\* outcome.  (No remote call is made once the task is fetched, so here an
\* error outcome can only come from the evaluation.)
C16_NoInstantNeverMatches ==
    \A f \in 1..Len(fetches) : \A x \in 1..Len(fetches[f].tasks) :
       (args.date_filter \in DateWindows /\ NoAwareInstant(fetches[f].tasks[x]))
       => /\ \A k \in 1..Len(evals) :
                (evals[k].i = fetches[f].i /\ evals[k].t = x) => ~evals[k].match
          /\ Done => Returned.kind # ErrorFilteringTasks.kind


(***************************************************************************)
(* The date parser.                                                        *)
(***************************************************************************)
Parsed == pc = "parsed"

\* C17: whatever it is handed (None, the empty string, text that is no
\* date, a string shorter than five characters, a date without offset),
\* _parse_ticktick_date returns None or a timezone-aware datetime, never a
\* datetime without timezone; None and the empty string give None.
C17_NoneOrAware ==
    Parsed => /\ ret[1] = None \/ ret[1][1].aware
              /\ falsy(args) => ret[1] = None

\* C18: for every date-time and every UTC offset, its four encodings -- the
\* offset written +HHMM or +HH:MM, the seconds with or without a fraction --
\* are all accepted and all give the instant the date-time and the offset
\* denote, hence the same instant.
C18_FourEncodingsOneInstant ==
    \A wall \in WallPool, off \in OffsetPool, frac \in BOOLEAN, colon \in BOOLEAN :
       (Parsed /\ args = DateStr(wall, frac, OffsetText(off, colon)))
       => /\ ret[1] # None
          /\ ret[1][1].aware
          /\ instant(ret[1][1]) = wall - off

\* The service's native form with an offset west of UTC was parsed.
C18_Witness ==
    /\ Parsed
    /\ args = DateStr(StartNow, FALSE, OffsetText(-19800, FALSE))
    /\ ret[1] # None
    /\ instant(ret[1][1]) = StartNow + 19800


(***************************************************************************)
(* The text search.                                                        *)
(***************************************************************************)
\* sub occurs in s as a run of consecutive characters.
IsSubstring(sub, s) ==
    \E a \in 1..(Len(s) + 1), b \in 0..Len(s) : SubSeq(s, a, b) = sub

\* The text of an optional field: nothing when the field is lacking.
TextOf(field) == IF field = None THEN <<>> ELSE field[1]

ItemTitles(task) ==
    IF task.items = None THEN {}
    ELSE { TextOf(task.items[1][k].title) : k \in 1..Len(task.items[1]) }

\* C19: a task matches a search term exactly when the term, lowercased, is
\* a substring of the lowercased title, or of the lowercased content, or of
\* the lowercased title of at least one subtask item; a title, a content or
\* items that the task lacks count as empty text.
C19_SearchIffSubstring ==
    \A k \in 1..Len(evals) :
       LET e == evals[k]
           term == lower(args.search_term[1])
       IN  args.search_term # None
           => (e.match <=>
                  \/ IsSubstring(term, lower(TextOf(e.task.title)))
                  \/ IsSubstring(term, lower(TextOf(e.task.content)))
                  \/ \E title \in ItemTitles(e.task) :
                        IsSubstring(term, lower(title)))

\* A task matched through the title of its second subtask only, in another
\* case than the term's.
C19_Witness ==
    /\ Len(evals) = 1
    /\ args.search_term = Some(<<"X", "a">>)
    /\ evals[1].task.title = Some(<<"c">>)
    /\ evals[1].task.content = None
    /\ evals[1].task.items = Some(<<Item(Some(<<"c">>)), Item(Some(<<"X", "A">>))>>)
    /\ evals[1].match


(***************************************************************************)
(* The shared client handle.                                               *)
(***************************************************************************)
\* C20: a tool uses the shared client only after an initialize_client that
\* returned success: when initialize_client has returned False -- the
\* invocation answered 'Failed to initialize TickTick client' -- the global
\* handle is left unset, so that the next invocation initialises again.
C20_FailedInitLeavesHandleUnset ==
    (Done /\ Returned.kind = InitFailed.kind)
    => ticktick = "None"


(***************************************************************************)
(* A scan of the one requested project.                                    *)
(***************************************************************************)
\* C21: when filter_tasks is called with a project_id that resolves, the
\* report it returns has exactly one group, that of the resolved project
\* with its count of matches, and the tasks of that project were fetched
\* exactly once -- whether or not the project is closed.
C21_RequestedProjectHasGroup ==
    (ReturnedReport /\ project_id_given(args.project_id))
    => /\ Len(projects) = 1
       /\ Len(Returned.groups) = 1
       /\ Returned.groups[1].project.id = projects[1].id
       /\ Returned.groups[1].count = Len(Returned.groups[1].tasks)
       /\ Len(ProjectFetches) = 1
       /\ ProjectFetches[1].arg = projects[1].id

=============================================================================
